---- MODULE Spec2Model ----
(***************************************************************************)
(* FIRST / FOLLOW computation of src/main.py.                              *)
(*                                                                         *)
(* A production is a Python string; the code walks it character by         *)
(* character.  Here a production is a sequence of one-character strings    *)
(* and Text(p) is the string itself, so that `production in                *)
(* special_symbols` is a test on the whole text while `production[i]` is   *)
(* one character.  A grammar (an insertion-ordered dict) is a sequence of  *)
(* records [nt, prods] with distinct keys.  The lists returned by first    *)
(* and follow are list(set) in arbitrary order and are kept as sets.       *)
(***************************************************************************)
EXTENDS Integers, Sequences, FiniteSets, TLC

VARIABLES cases, idx, pc, firsts, follows, changes, pos,
          first_sets, firsts_list, follows_list

vars == <<cases, idx, pc, firsts, follows, changes, pos,
          first_sets, firsts_list, follows_list>>

-----------------------------------------------------------------------------
(* Strings and symbol classification                                       *)

special_symbols == {"epsilon", "id", "or", "not", "and", "true", "false"}

UpperCase == {"A", "B", "C", "D", "E", "F", "G", "H", "I", "J", "K", "L", "M",
              "N", "O", "P", "Q", "R", "S", "T", "U", "V", "W", "X", "Y", "Z"}

isupper(c) == c \in UpperCase

RECURSIVE Text(_)
Text(production) ==
    IF production = <<>> THEN ""
    ELSE Head(production) \o Text(Tail(production))

Elems(seq) == {seq[i] : i \in DOMAIN seq}

Chars(production) == Elems(production)

Keys(grammar) == {grammar[n].nt : n \in DOMAIN grammar}

ProdsOf(grammar, non_terminal) ==
    grammar[CHOOSE n \in DOMAIN grammar : grammar[n].nt = non_terminal].prods

AllProductions(grammar) ==
    UNION {Elems(grammar[n].prods) : n \in DOMAIN grammar}

non_terminals_of(grammar) == Keys(grammar)

terminals_of(grammar) ==
    UNION { IF Text(production) \in special_symbols
              THEN {Text(production)}
              ELSE {symbol \in Chars(production) :
                      symbol \notin Keys(grammar) /\ ~isupper(symbol)}
            : production \in AllProductions(grammar) }

EmptySets(grammar) == [non_terminal \in Keys(grammar) |-> {}]

-----------------------------------------------------------------------------
(* first(grammar)                                                          *)

\* Lines 70-73: the first character of every non-empty production, when it
\* is a terminal of the grammar, goes into the owner's set.
FirstSeed(grammar) ==
    [non_terminal \in Keys(grammar) |->
        {production[1] : production \in
            {q \in Elems(ProdsOf(grammar, non_terminal)) :
                q # <<>> /\ q[1] \in terminals_of(grammar)}}]

\* Mutant: the set is assigned instead of updated.
AssignWithoutEpsilon(target, source) == source \ {"epsilon"}

\* Line 96: firsts[non_terminal].update(firsts[symbol] - {'epsilon'}).
UpdateWithoutEpsilon(target, source) == target \cup (source \ {"epsilon"})

\* Mutant: every non-terminal scanned counts as a change.
AlwaysChanged(before, after) == TRUE

\* Lines 95-99: the length of the set before and after the update.
LenChanged(before, after) == Cardinality(before) # Cardinality(after)

\* Mutant: an exhausted scan adds nothing.
ScanExhaustedSilently(non_terminal, f, ch) == [f |-> f, ch |-> ch]

\* Lines 103-107: the else branch of the while loop (reached without break).
ScanExhausted(non_terminal, f, ch) ==
    IF "epsilon" \notin f[non_terminal]
      THEN [f |-> [f EXCEPT ![non_terminal] = @ \cup {"epsilon"}], ch |-> TRUE]
      ELSE [f |-> f, ch |-> ch]

\* Lines 81-107: the scan of one production from position i (1-based here).
RECURSIVE ScanFrom(_, _, _, _, _, _)
ScanFrom(grammar, non_terminal, production, i, f, ch) ==
    IF i > Len(production)
      THEN ScanExhausted(non_terminal, f, ch)
      ELSE
        LET symbol == IF Text(production) \in special_symbols
                        THEN Text(production)
                        ELSE production[i]
        IN  IF symbol \in terminals_of(grammar)
              THEN IF symbol \notin f[non_terminal]
                     THEN [f  |-> [f EXCEPT ![non_terminal] = @ \cup {symbol}],
                           ch |-> TRUE]
                     ELSE [f |-> f, ch |-> ch]
            ELSE IF symbol \in non_terminals_of(grammar)
              THEN LET after == UpdateWithoutEpsilon(f[non_terminal], f[symbol])
                       f2    == [f EXCEPT ![non_terminal] = after]
                       ch2   == ch \/ LenChanged(f[non_terminal], after)
                   IN  IF "epsilon" \notin f2[symbol]
                         THEN [f |-> f2, ch |-> ch2]
                         ELSE ScanFrom(grammar, non_terminal, production,
                                       i + 1, f2, ch2)
            ELSE ScanFrom(grammar, non_terminal, production, i + 1, f, ch)

FirstScanProduction(grammar, non_terminal, production, f, ch) ==
    ScanFrom(grammar, non_terminal, production, 1, f, ch)

\* Lines 79-80: the (non-terminal, production) pairs in iteration order.
RECURSIVE FirstPositionsFrom(_, _)
FirstPositionsFrom(grammar, n) ==
    IF n > Len(grammar) THEN <<>>
    ELSE [p \in 1..Len(grammar[n].prods) |-> <<n, p>>]
         \o FirstPositionsFrom(grammar, n + 1)

FirstPositions(grammar) == FirstPositionsFrom(grammar, 1)

-----------------------------------------------------------------------------
(* follow(grammar, firsts)                                                 *)

start_symbol_of(grammar) == grammar[1].nt

\* Mutant: the start symbol is not seeded.
FollowSeedEmpty(grammar) == [non_terminal \in Keys(grammar) |-> {}]

\* Lines 113-115.
FollowSeed(grammar) ==
    [non_terminal \in Keys(grammar) |->
        IF non_terminal = start_symbol_of(grammar) THEN {"$"} ELSE {}]

\* Mutant: 'epsilon' is not removed after the update.
UpdateKeepingEpsilon(target, source) == target \cup source

\* Lines 130-132: update with FIRST(next_symbol), then remove 'epsilon'.
UpdateAndStrip(target, source) == (target \cup source) \ {"epsilon"}

\* Lines 143 and 148: set.update returns None, which `if` takes as false.
update_returns == FALSE

\* Lines 126-139: the forward walk from position j; yields the FOLLOW sets
\* and the value of j when the loop is left.
RECURSIVE FollowWalk(_, _, _, _, _, _)
FollowWalk(grammar, fsets, production, symbol, j, fo) ==
    IF j > Len(production)
      THEN [fo |-> fo, j |-> j]
      ELSE
        LET next_symbol == production[j]
        IN  IF next_symbol \in non_terminals_of(grammar)
              THEN LET fo2 == [fo EXCEPT ![symbol] =
                                  UpdateAndStrip(@, fsets[next_symbol])]
                   IN  IF "epsilon" \in fsets[next_symbol]
                         THEN FollowWalk(grammar, fsets, production, symbol,
                                         j + 1, fo2)
                         ELSE [fo |-> fo2, j |-> j]
              ELSE [fo |-> [fo EXCEPT ![symbol] = @ \cup {next_symbol}],
                    j  |-> j]

\* Lines 123-149: one iteration of `for i, symbol in enumerate(production)`.
FollowOccurrence(grammar, fsets, non_terminal, production, i, fo, ch) ==
    LET symbol == production[i]
    IN  IF symbol \notin non_terminals_of(grammar)
          THEN [fo |-> fo, ch |-> ch]
          ELSE
            LET w    == FollowWalk(grammar, fsets, production, symbol, i + 1, fo)
                end  == w.j = Len(production) + 1
                fo1  == IF end
                          THEN [w.fo EXCEPT ![symbol] = @ \cup w.fo[non_terminal]]
                          ELSE w.fo
                ch1  == IF end /\ update_returns THEN TRUE ELSE ch
                last == i = Len(production)
                fo2  == IF last
                          THEN [fo1 EXCEPT ![symbol] = @ \cup fo1[non_terminal]]
                          ELSE fo1
                ch2  == IF last /\ update_returns THEN TRUE ELSE ch1
            IN  [fo |-> fo2, ch |-> ch2]

\* Lines 121-123: the (non-terminal, production, character) triples in
\* iteration order.
RECURSIVE FollowPositionsOf(_, _, _)
FollowPositionsOf(grammar, n, p) ==
    IF n > Len(grammar) THEN <<>>
    ELSE IF p > Len(grammar[n].prods) THEN FollowPositionsOf(grammar, n + 1, 1)
    ELSE [i \in 1..Len(grammar[n].prods[p]) |-> <<n, p, i>>]
         \o FollowPositionsOf(grammar, n, p + 1)

FollowPositions(grammar) == FollowPositionsOf(grammar, 1, 1)

-----------------------------------------------------------------------------
(* Input: the grammar cases read_input_file hands to the main loop          *)

MaxProds == 3

\* Declared non-terminals, in declaration order; a grammar declares a
\* non-empty prefix of them, so that "A" is an undefined reference in the
\* grammars that declare only "S".
NTNames == <<"S", "A">>

\* Right-hand sides as read_input_file stores them (stripped text).
Pool == << <<>>,
           <<"e", "p", "s", "i", "l", "o", "n">>,
           <<"A">>,
           <<"S", "e">>,
           <<"A", "S">>,
           <<"S", "A">>,
           <<"e">> >>

\* Lists of distinct alternatives, in pool order.
AltLists ==
    UNION { { [k \in 1..len |-> Pool[s[k]]] :
                s \in {t \in [1..len -> DOMAIN Pool] :
                          \A a, b \in 1..len : a < b => t[a] < t[b]} }
            : len \in 1..MaxProds }

RECURSIVE TotalProds(_)
TotalProds(grammar) ==
    IF grammar = <<>> THEN 0
    ELSE Len(Head(grammar).prods) + TotalProds(Tail(grammar))

\* Grammars with at most MaxProds productions in all.
GeneratedGrammars ==
    UNION { { g \in { [k \in 1..n |-> [nt |-> NTNames[k], prods |-> alts[k]]] :
                        alts \in [1..n -> AltLists] } :
                TotalProds(g) <= MaxProds }
            : n \in DOMAIN NTNames }

\* The grammars of the documented examples: S -> A B, A -> a | epsilon,
\* B -> b;  S -> id;  S -> A, A -> epsilon.
Example1 ==
    << [nt |-> "S", prods |-> << <<"A", " ", "B">> >>],
       [nt |-> "A", prods |-> << <<"a">>, <<"e", "p", "s", "i", "l", "o", "n">> >>],
       [nt |-> "B", prods |-> << <<"b">> >>] >>

Example2 == << [nt |-> "S", prods |-> << <<"i", "d">> >>] >>

Grammars == GeneratedGrammars \cup {Example1, Example2}

Reverse(seq) == [k \in DOMAIN seq |-> seq[Len(seq) + 1 - k]]

\* The same start symbol and the same productions per non-terminal, with
\* the alternatives and the non-start declarations in the opposite order.
Reordered(grammar) ==
    [k \in DOMAIN grammar |->
        LET from == IF k = 1 THEN grammar[1]
                    ELSE grammar[Len(grammar) + 2 - k]
        IN  [nt |-> from.nt, prods |-> Reverse(from.prods)]]

-----------------------------------------------------------------------------
(* The main loop, lines 186-204                                            *)

Grammar == cases[idx]

Init ==
    /\ cases \in {<<g, Reordered(g)>> : g \in Grammars}
    /\ idx = 1
    /\ pc = "case"
    /\ firsts = <<>>
    /\ follows = <<>>
    /\ changes = FALSE
    /\ pos = 0
    /\ first_sets = <<>>
    /\ firsts_list = <<>>
    /\ follows_list = <<>>

\* Lines 186-188 and 66-67: the next case enters first().
FirstEnter ==
    /\ pc = "case"
    /\ idx <= Len(cases)
    /\ firsts' = EmptySets(Grammar)
    /\ pc' = "first_seed"
    /\ UNCHANGED <<cases, idx, follows, changes, pos, first_sets,
                   firsts_list, follows_list>>

\* Lines 69-76.
FirstSeeding ==
    /\ pc = "first_seed"
    /\ firsts' = [nt \in Keys(Grammar) |->
                    firsts[nt] \cup FirstSeed(Grammar)[nt]]
    /\ changes' = TRUE
    /\ pc' = "first_while"
    /\ UNCHANGED <<cases, idx, follows, pos, first_sets,
                   firsts_list, follows_list>>

\* Lines 77-78: another pass starts.
FirstPass ==
    /\ pc = "first_while"
    /\ changes
    /\ changes' = FALSE
    /\ pos' = 1
    /\ pc' = "first_scan"
    /\ UNCHANGED <<cases, idx, firsts, follows, first_sets,
                   firsts_list, follows_list>>

\* Lines 80-107: one production is scanned.
FirstScan ==
    /\ pc = "first_scan"
    /\ LET at  == FirstPositions(Grammar)[pos]
           rec == Grammar[at[1]]
           r   == FirstScanProduction(Grammar, rec.nt, rec.prods[at[2]],
                                      firsts, changes)
       IN  /\ firsts' = r.f
           /\ changes' = r.ch
    /\ IF pos < Len(FirstPositions(Grammar))
         THEN pos' = pos + 1 /\ pc' = "first_scan"
         ELSE pos' = 0 /\ pc' = "first_while"
    /\ UNCHANGED <<cases, idx, follows, first_sets, firsts_list, follows_list>>

\* Lines 77, 109 and 188: the loop ends and first returns.
FirstReturn ==
    /\ pc = "first_while"
    /\ ~changes
    /\ first_sets' = firsts
    /\ pc' = "follow_init"
    /\ UNCHANGED <<cases, idx, firsts, follows, changes, pos,
                   firsts_list, follows_list>>

\* Lines 189 and 112-118.
FollowEnter ==
    /\ pc = "follow_init"
    /\ follows' = FollowSeed(Grammar)
    /\ changes' = TRUE
    /\ pc' = "follow_while"
    /\ UNCHANGED <<cases, idx, firsts, pos, first_sets,
                   firsts_list, follows_list>>

\* Lines 119-120: another pass starts.
FollowPass ==
    /\ pc = "follow_while"
    /\ changes
    /\ changes' = FALSE
    /\ IF FollowPositions(Grammar) = <<>>
         THEN pos' = 0 /\ pc' = "follow_while"
         ELSE pos' = 1 /\ pc' = "follow_scan"
    /\ UNCHANGED <<cases, idx, firsts, follows, first_sets,
                   firsts_list, follows_list>>

\* Lines 123-149: one character of one production is handled.
FollowScan ==
    /\ pc = "follow_scan"
    /\ LET at  == FollowPositions(Grammar)[pos]
           rec == Grammar[at[1]]
           r   == FollowOccurrence(Grammar, first_sets, rec.nt,
                                   rec.prods[at[2]], at[3], follows, changes)
       IN  /\ follows' = r.fo
           /\ changes' = r.ch
    /\ IF pos < Len(FollowPositions(Grammar))
         THEN pos' = pos + 1 /\ pc' = "follow_scan"
         ELSE pos' = 0 /\ pc' = "follow_while"
    /\ UNCHANGED <<cases, idx, firsts, first_sets, firsts_list, follows_list>>

\* Lines 119, 151 and 189-191: follow returns and the results are appended.
FollowReturn ==
    /\ pc = "follow_while"
    /\ ~changes
    /\ firsts_list' = Append(firsts_list, first_sets)
    /\ follows_list' = Append(follows_list, follows)
    /\ idx' = idx + 1
    /\ pc' = "case"
    /\ UNCHANGED <<cases, firsts, follows, changes, pos, first_sets>>

\* Lines 203-204: every case is done.
Finish ==
    /\ pc = "case"
    /\ idx > Len(cases)
    /\ pc' = "done"
    /\ UNCHANGED <<cases, idx, firsts, follows, changes, pos, first_sets,
                   firsts_list, follows_list>>

Next ==
    \/ FirstEnter
    \/ FirstSeeding
    \/ FirstPass
    \/ FirstScan
    \/ FirstReturn
    \/ FollowEnter
    \/ FollowPass
    \/ FollowScan
    \/ FollowReturn
    \/ Finish

Spec == Init /\ [][Next]_vars

\* The program is sequential: whichever step is enabled is taken.
FairSpec == Spec /\ WF_vars(Next)

-----------------------------------------------------------------------------
(* Properties                                                              *)

Returned == DOMAIN follows_list

InFirst == pc \in {"first_seed", "first_while", "first_scan"}

InFollow == pc \in {"follow_while", "follow_scan"}

\* Every symbol of production after position i is a declared non-terminal
\* whose FIRST set holds 'epsilon' (vacuous when i is the last position).
NullableSuffix(grammar, fsets, production, i) ==
    \A j \in (i + 1)..Len(production) :
        /\ production[j] \in Keys(grammar)
        /\ "epsilon" \in fsets[production[j]]

IsFollowFixedPoint(grammar, fsets, fo) ==
    \A n \in DOMAIN grammar : \A q \in DOMAIN grammar[n].prods :
        LET production == grammar[n].prods[q]
        IN  \A i \in DOMAIN production :
                (/\ production[i] \in Keys(grammar)
                 /\ NullableSuffix(grammar, fsets, production, i))
                => fo[grammar[n].nt] \subseteq fo[production[i]]

\* C1: the mapping follow returns is a fixed point of the FOLLOW rules: for
\* every production A -> alpha X beta with X a non-terminal and beta empty
\* or made of nullable non-terminals, FOLLOW(A) is a subset of FOLLOW(X).
C1_FollowIsFixedPoint ==
    \A k \in Returned :
        IsFollowFixedPoint(cases[k], firsts_list[k], follows_list[k])

\* One full pass of the scan over the grammar, from position k on.
RECURSIVE ScanPassFrom(_, _, _)
ScanPassFrom(grammar, k, f) ==
    IF k > Len(FirstPositions(grammar)) THEN f
    ELSE LET at  == FirstPositions(grammar)[k]
             rec == grammar[at[1]]
         IN  ScanPassFrom(grammar, k + 1,
                 FirstScanProduction(grammar, rec.nt, rec.prods[at[2]],
                                     f, FALSE).f)

RECURSIVE ScanClosure(_, _)
ScanClosure(grammar, f) ==
    LET g == ScanPassFrom(grammar, 1, f)
    IN  IF g = f THEN f ELSE ScanClosure(grammar, g)

\* The least fixed point of the scan rules, started from empty sets.
LeastFirst(grammar) == ScanClosure(grammar, EmptySets(grammar))

\* C2: the mapping first returns is exactly the least fixed point of the
\* scan rules started from empty sets; a production that is one special
\* token contributes that token only, never its first character.
C2_FirstIsLeastFixedPoint ==
    \A k \in Returned : firsts_list[k] = LeastFirst(cases[k])

\* C3: for S -> A B, A -> a | epsilon, B -> b the returned sets are
\* FIRST(A) = {a, epsilon}, FIRST(B) = {b}, FIRST(S) = {a, b},
\* FOLLOW(A) = {b}, FOLLOW(B) = {$}, FOLLOW(S) = {$}.
C3_Example1 ==
    \A k \in Returned :
        cases[k] = Example1 =>
            /\ firsts_list[k] =
                 [nt \in {"S", "A", "B"} |->
                    IF nt = "A" THEN {"a", "epsilon"}
                    ELSE IF nt = "B" THEN {"b"} ELSE {"a", "b"}]
            /\ follows_list[k] =
                 [nt \in {"S", "A", "B"} |->
                    IF nt = "A" THEN {"b"} ELSE {"$"}]

HasUndefinedReference(grammar) ==
    \E production \in AllProductions(grammar) :
        \E symbol \in Chars(production) :
            isupper(symbol) /\ symbol \notin Keys(grammar)

\* C4: for a grammar with an undefined non-terminal reference first and
\* follow end in an error and return no FIRST or FOLLOW mapping.
C4_UndefinedReferenceFails ==
    \A k \in Returned : ~HasUndefinedReference(cases[k])

\* C5: the `while changes` loops of first and of follow terminate for every
\* grammar: every case is computed and the program reaches its end.
C5_Terminates == <>(pc = "done")

\* The program has ended on a left-recursive grammar whose first() needed
\* the scan to reach past a nullable non-terminal.
C5_Witness ==
    /\ pc = "done"
    /\ \E k \in DOMAIN cases :
         /\ ~HasUndefinedReference(cases[k])
         /\ \E n \in DOMAIN cases[k] :
              /\ "epsilon" \in firsts_list[k][cases[k][n].nt]
              /\ \E production \in Elems(cases[k][n].prods) :
                    /\ Len(production) >= 2
                    /\ production[1] = cases[k][n].nt

SameUpToOrder(g, h) ==
    /\ start_symbol_of(g) = start_symbol_of(h)
    /\ Keys(g) = Keys(h)
    /\ \A nt \in Keys(g) : Elems(ProdsOf(g, nt)) = Elems(ProdsOf(h, nt))

\* C6: two grammars with the same start symbol and the same productions per
\* non-terminal, in whatever order, get set-equal FIRST and FOLLOW mappings.
C6_OrderIndependent ==
    \A k, m \in Returned :
        SameUpToOrder(cases[k], cases[m]) =>
            /\ firsts_list[k] = firsts_list[m]
            /\ follows_list[k] = follows_list[m]

\* C7: '$' is in FOLLOW(start symbol) from the seeding on, through every
\* step of every pass, and in the mapping follow returns.
C7_DollarInFollowStart ==
    /\ InFollow => "$" \in follows[start_symbol_of(Grammar)]
    /\ \A k \in Returned : "$" \in follows_list[k][start_symbol_of(cases[k])]

\* follow has returned for a grammar without undefined references whose
\* start symbol collected more than the seed.
C7_Witness ==
    \E k \in Returned :
        /\ ~HasUndefinedReference(cases[k])
        /\ "$" \in follows_list[k][start_symbol_of(cases[k])]
        /\ Cardinality(follows_list[k][start_symbol_of(cases[k])]) >= 2

\* C8: while first runs no step makes a FIRST set lose a member, and while
\* follow runs no step makes a FOLLOW set lose a member; so the sets at the
\* end of a pass include the sets at its start (and the seeded sets).
C8_Monotone ==
    [][ /\ InFirst =>
             \A nt \in DOMAIN firsts : firsts[nt] \subseteq firsts'[nt]
        /\ InFollow =>
             \A nt \in DOMAIN follows : follows[nt] \subseteq follows'[nt]
      ]_vars

\* Both fixed points have made their passes and grown sets beyond one member.
C8_Witness ==
    /\ pc = "follow_while"
    /\ ~changes
    /\ \E nt \in DOMAIN firsts : Cardinality(firsts[nt]) >= 2
    /\ \E nt \in DOMAIN follows : Cardinality(follows[nt]) >= 2

EntirelyNullable(grammar, fsets, production) ==
    \/ production = <<>>
    \/ Text(production) = "epsilon"
    \/ \A i \in DOMAIN production :
          /\ production[i] \in Keys(grammar)
          /\ "epsilon" \in fsets[production[i]]

\* C9: a non-terminal with a production that is empty, is 'epsilon', or is
\* made only of declared non-terminals whose returned FIRST sets hold
\* 'epsilon', has 'epsilon' in its returned FIRST set.
C9_EpsilonPropagation ==
    \A k \in Returned : \A n \in DOMAIN cases[k] :
        (\E production \in Elems(cases[k][n].prods) :
            EntirelyNullable(cases[k], firsts_list[k], production))
        => "epsilon" \in firsts_list[k][cases[k][n].nt]

\* A returned case in which 'epsilon' reached a non-terminal only through a
\* production made of nullable non-terminals.
C9_Witness ==
    \E k \in Returned : \E n \in DOMAIN cases[k] :
        /\ \E production \in Elems(cases[k][n].prods) :
              /\ Len(production) >= 2
              /\ Text(production) # "epsilon"
              /\ EntirelyNullable(cases[k], firsts_list[k], production)
        /\ \A production \in Elems(cases[k][n].prods) :
              production # <<>> /\ Text(production) # "epsilon"
        /\ "epsilon" \in firsts_list[k][cases[k][n].nt]

\* C10: no FOLLOW set holds 'epsilon', neither after any occurrence has been
\* handled nor in the mapping follow returns.
C10_NoEpsilonInFollow ==
    /\ InFollow => \A nt \in DOMAIN follows : "epsilon" \notin follows[nt]
    /\ \A k \in Returned :
         \A nt \in DOMAIN follows_list[k] : "epsilon" \notin follows_list[k][nt]

\* An occurrence already handled in this pass was followed by a nullable
\* non-terminal that ends the production, so that FIRST of the follower and
\* FOLLOW of the left-hand side were both merged in.
C10_Witness ==
    /\ pc = "follow_scan"
    /\ \E q \in 1..(pos - 1) :
         LET at         == FollowPositions(Grammar)[q]
             production == Grammar[at[1]].prods[at[2]]
             i          == at[3]
         IN  /\ i + 1 = Len(production)
             /\ production[i] \in Keys(Grammar)
             /\ production[i + 1] \in Keys(Grammar)
             /\ "epsilon" \in first_sets[production[i + 1]]
             /\ follows[production[i]] # {}

=============================================================================
